---- MODULE Spec2Model ----
(***************************************************************************)
(* YouTubeMetadataService (backend/app/services/youtube_metadata.py):      *)
(* the TTL caches, the in-flight registry, the asyncio lock, the           *)
(* ThreadPoolExecutor and the asyncio event loop that runs the coroutines  *)
(* get_video_metadata, get_audio_url and _fetch_metadata.                  *)
(*                                                                         *)
(* The event loop is modelled as asyncio runs it: one FIFO queue of ready  *)
(* callbacks (`ready`), one callback running at a time (`running`), a      *)
(* coroutine keeps the loop until it suspends.  Worker threads and the     *)
(* clock advance independently of the loop.                                *)
(***************************************************************************)
EXTENDS Integers, Sequences, FiniteSets, TLC

\* ---------------------------------------------------------------- bounds
MaxCalls == 3        \* requests of a specification with one kind of request
MaxMetaCalls == 4    \* requests of get_video_metadata's own specification
MaxMixedCalls == 2   \* requests of a specification with every kind
MaxPoolCalls == 4    \* requests of the worker pool's specification
MaxOther == 1        \* requests for a url other than UrlA
MaxTicks == 2
MaxCancels == 1
MaxFormats == 2      \* formats in a listing the Extraction Client returns
MaxSelectCalls == 1  \* requests of the selector's specification
MaxExtractCalls == 1 \* requests of the identifier extraction's specification
TickSeconds == 300

\* ------------------------------------------------------ program constants
max_workers == 3
cache_ttl_seconds == 600
audio_cache_ttl_seconds == 600

\* ------------------------------------------------------- extract_video_id
\* A url is a sequence of tokens; a token is one of the literal substrings
\* the two regular expressions name, one of the characters the group
\* excludes, or a run of other characters that is part of no such literal.
Delims == {"&", "\n", "?", "#"}

WatchPrefix == <<"youtube.com/watch", "?", "v=">>
ShortPrefix == <<"youtu.be/">>
EmbedPrefix == <<"youtube.com/embed/">>
ShortsPrefix == <<"youtube.com/shorts/">>

\* patterns[k]: the alternatives of the k-th regular expression, in order
patterns == << <<WatchPrefix, ShortPrefix, EmbedPrefix>>, <<ShortsPrefix>> >>

NoMatch == <<>>

Min(S) == CHOOSE x \in S : \A y \in S : x <= y

\* prefix `p` matches at position i and at least one [^&\n?#] follows it
MatchAt(p, url, i) ==
    /\ i + Len(p) <= Len(url)
    /\ SubSeq(url, i, i + Len(p) - 1) = p
    /\ url[i + Len(p)] \notin Delims

\* (mutation) the group runs to the end of the url
GroupToEnd(url, s) == SubSeq(url, s, Len(url))

\* ([^&\n?#]+) is greedy: the longest run of non-delimiters from position s
GroupFrom(url, s) ==
    LET stops == {e \in s..Len(url) : url[e] \in Delims}
        last == IF stops = {} THEN Len(url) ELSE Min(stops) - 1
    IN  SubSeq(url, s, last)

\* re.search(pattern, url): the leftmost position where an alternative
\* matches; group(1) of that match, or NoMatch
re_search(alts, url) ==
    LET hits == {i \in 1..Len(url) : \E k \in 1..Len(alts) : MatchAt(alts[k], url, i)}
    IN  IF hits = {} THEN NoMatch
        ELSE LET i == Min(hits)
                 k == Min({j \in 1..Len(alts) : MatchAt(alts[j], url, i)})
             IN  GroupFrom(url, i + Len(alts[k]))

\* (mutation) no rule is applied: whatever follows the first token is taken
extract_video_id_unchecked(url) == IF url = <<>> THEN <<>> ELSE Tail(url)

extract_video_id(url) ==
    LET m1 == re_search(patterns[1], url)
        m2 == re_search(patterns[2], url)
    IN  IF m1 # NoMatch THEN m1 ELSE m2

\* ------------------------------------------------ _extract_audio_url_sync
\* (mutation) every format of the listing is a candidate
AudioFormatsUnfiltered(formats) == formats

\* A format: acodec ("" when the key is absent), abr and tbr (-1 when
\* absent), url ("" when absent).
AudioFormats(formats) ==
    SelectSeq(formats, LAMBDA f : f.acodec \notin {"", "none"})

OrZero(x) == IF x = -1 THEN 0 ELSE x

\* key a >= key b for the key (abr or 0, tbr or 0), compared as tuples
KeyGeq(a, b) ==
    \/ OrZero(a.abr) > OrZero(b.abr)
    \/ OrZero(a.abr) = OrZero(b.abr) /\ OrZero(a.tbr) >= OrZero(b.tbr)

\* (mutation) the best format among those that have a url, when there is one
BestAudioWithUrl(fs) ==
    LET have == IF \E i \in 1..Len(fs) : fs[i].url # ""
                THEN {i \in 1..Len(fs) : fs[i].url # ""} ELSE 1..Len(fs)
        top == {i \in have : \A j \in have : KeyGeq(fs[i], fs[j])}
    IN  fs[Min(top)]

\* sorted(..., reverse=True)[0]: sorted is stable, so the first format in
\* listing order among those with the greatest key
BestAudio(fs) ==
    LET top == {i \in 1..Len(fs) : \A j \in 1..Len(fs) : KeyGeq(fs[i], fs[j])}
    IN  fs[Min(top)]

\* What the worker thread's function returns or raises, given what the
\* Extraction Client did: [st, v, err]
Returned(v) == [st |-> "ok", v |-> v, err |-> ""]
Raised(e) == [st |-> "exc", v |-> "", err |-> e]

extract_audio_url_sync(resp) ==
    IF resp.kind = "raise" THEN Raised("DownloadError")
    ELSE IF resp.kind = "none"
        THEN Raised("ValueError: Could not extract audio information")
    ELSE IF resp.direct # "" THEN Returned(resp.direct)
    ELSE IF AudioFormats(resp.formats) = <<>>
        THEN Raised("ValueError: No audio formats available")
    ELSE IF BestAudio(AudioFormats(resp.formats)).url = ""
        THEN Raised("ValueError: Failed to resolve audio stream URL")
    ELSE Returned(BestAudio(AudioFormats(resp.formats)).url)

extract_info_sync(resp) ==
    IF resp.kind = "raise" THEN Raised("DownloadError")
    ELSE IF resp.kind = "none" THEN Returned("")
    ELSE Returned("info")

\* ----------------------------------------------------------------- inputs
UrlA == <<"youtu.be/", "a">>
UrlB == <<"youtube.com/watch", "?", "v=", "b", "&", "t">>
UrlBad == <<"e", "x">>
Urls == {UrlA, UrlB, UrlBad}

\* Urls for extract_video_id, each with the identifier it holds by
\* construction: something before, a rule's prefix, a run of characters
\* other than & \n ? #, and either nothing or one of those four and more.
Prefixes == {WatchPrefix, ShortPrefix, EmbedPrefix, ShortsPrefix}
Heads == {<<>>, <<"https://www.">>}
Runs == {<<"a">>, <<"b">>, <<"a", "b">>, <<"b", "a">>, <<"abc123">>}
Rests == {<<>>, <<"&", "t=5">>, <<"?", "x">>, <<"#", "x">>, <<"\n">>}

MatchingCases ==
    {[url |-> h \o p \o r \o t, id |-> r] :
        h \in Heads, p \in Prefixes, r \in Runs, t \in Rests}

\* urls no rule matches: no prefix, or a prefix with no character of the
\* group after it
UnmatchedCases ==
    {[url |-> u, id |-> <<>>] :
        u \in {<<"https://example.com/video">>, <<>>, UrlBad}
              \cup {h \o p : h \in Heads, p \in Prefixes}
              \cup {p \o <<d>> \o <<"x">> : p \in Prefixes, d \in {"&", "?", "#", "\n"} }}

ExtractCases == MatchingCases \cup UnmatchedCases

\* Urls in which two rules match at different positions: the first rule's
\* prefix with the identifier "a", then "?", then the second rule's prefix
\* with the identifier "b".
TwoRuleCases ==
    {[first |-> p, second |-> q, url |-> p \o <<"a">> \o <<"?">> \o q \o <<"b">>] :
        p \in Prefixes, q \in Prefixes} \ 
    {[first |-> p, second |-> p, url |-> p \o <<"a">> \o <<"?">> \o p \o <<"b">>] :
        p \in Prefixes}

ExtractUrls == {k.url : k \in ExtractCases \cup TwoRuleCases}

VideoIds == {extract_video_id(u) : u \in Urls \cup ExtractUrls} \ {NoMatch}
Ops == {"meta", "audio", "fast"}

Fmt(c, a, t, u) == [acodec |-> c, abr |-> a, tbr |-> t, url |-> u]

InfoResponse ==
    [kind |-> "info", direct |-> "", formats |->
        <<Fmt("none", -1, 900, "v"), Fmt("aac", 128, -1, "u1"), Fmt("opus", 160, -1, "u2")>>]

\* the listings of at most MaxFormats formats; a format that has a url has
\* one that tells its place in the listing
FormatUrls == <<"u1", "u2", "u3", "u4">>

BareFormats ==
    [acodec : {"", "none", "aac"}, abr : {-1, 0, 128}, tbr : {-1, 64}, url : {"", "u"}]

RECURSIVE ListingsOfLen(_)
ListingsOfLen(n) ==
    IF n = 0 THEN {<<>>}
    ELSE {Append(fs, [f EXCEPT !.url = IF @ = "" THEN "" ELSE FormatUrls[n]]) :
             fs \in ListingsOfLen(n - 1), f \in BareFormats}

Listings == UNION {ListingsOfLen(n) : n \in 0..MaxFormats}

\* what the Extraction Client may answer to a best-audio request
SelectorResponses ==
    {[kind |-> "none", direct |-> "", formats |-> <<>>]}
    \cup [kind : {"info"}, direct : {"", "d"}, formats : Listings]
    \cup {InfoResponse}

NoResp == [kind |-> "pending", direct |-> "", formats |-> <<>>]

ClientResponses ==
    { [kind |-> "raise", direct |-> "", formats |-> <<>>],
      [kind |-> "none", direct |-> "", formats |-> <<>>],
      InfoResponse }

\* ------------------------------------------------------------------ state
VARIABLES
    now,          \* time.time()
    cache,        \* _cache: video id -> {data, expires_at}
    audio_cache,  \* _audio_cache: video id -> {audio_url, expires_at}
    inflight,     \* _inflight: video id -> the asyncio.Task (0: no key)
    lock,         \* _lock: the call holding it (0: free)
    calls,        \* the requests: one coroutine of the service each
    tasks,        \* the asyncio.Tasks created for _fetch_metadata
    jobs,         \* the work items submitted to _executor
    ready,        \* the event loop's queue of ready callbacks
    running,      \* the call whose coroutine has the loop (0: none)
    cancels       \* how many requests were cancelled

vars == <<now, cache, audio_cache, inflight, lock, calls, tasks, jobs, ready,
          running, cancels>>

\* A result: of a call, of a task. src is the work item whose return value
\* the result was built from (the identity of the object).
\* hit and exp are history: the read path that served a cached value, and
\* the expiry of the entry that was read or written.
NoRes == [st |-> "none", v |-> "", src |-> 0, err |-> "", hit |-> "", exp |-> 0]
Ok(v, src) == [NoRes EXCEPT !.st = "ok", !.v = v, !.src = src]
Fail(err, src) == [NoRes EXCEPT !.st = "fail", !.src = src, !.err = err]
Cancelled == [NoRes EXCEPT !.st = "cancelled", !.err = "CancelledError"]
Absent == [NoRes EXCEPT !.st = "absent"]

NoEntry == [present |-> FALSE, v |-> "", src |-> 0, expires_at |-> 0]
NoRet == [st |-> "none", v |-> "", err |-> ""]

Item(k, id) == [k |-> k, id |-> id]

\* (mutation) an entry is served whatever its expiry
FreshAlways(e) == e.present

\* (mutation) an entry is still served at its expiry instant
FreshInclusive(e) == e.present /\ e.expires_at >= now

\* `cached and cached.get("expires_at", 0) > time.time()`
Fresh(e) == e.present /\ e.expires_at > now

\* the value a read of a fresh entry returns, by which read path
Hit(e, path) == [Ok(e.v, e.src) EXCEPT !.hit = path, !.exp = e.expires_at]

get_cached_metadata(video_id) ==
    IF Fresh(cache[video_id]) THEN Hit(cache[video_id], "get_cached_metadata")
    ELSE Absent

get_cached_audio_url(video_id) ==
    IF Fresh(audio_cache[video_id])
    THEN Hit(audio_cache[video_id], "get_cached_audio_url")
    ELSE Absent

Put(v, src, ttl) == [present |-> TRUE, v |-> v, src |-> src, expires_at |-> now + ttl]

Init ==
    /\ now = 0
    /\ cache = [id \in VideoIds |-> NoEntry]
    /\ audio_cache = [id \in VideoIds |-> NoEntry]
    /\ inflight = [id \in VideoIds |-> 0]
    /\ lock = 0
    /\ calls = <<>>
    /\ tasks = <<>>
    /\ jobs = <<>>
    /\ ready = <<>>
    /\ running = 0
    /\ cancels = 0

Idle == running = 0
Next1(k, id) == Idle /\ ready # <<>> /\ Head(ready) = Item(k, id)

\* ------------------------------------------------------------ environment
\* time passes
Tick ==
    /\ now + TickSeconds <= MaxTicks * TickSeconds
    /\ now' = now + TickSeconds
    /\ UNCHANGED <<cache, audio_cache, inflight, lock, calls, tasks, jobs, ready,
                   running, cancels>>

\* a request arrives: its handler is scheduled on the loop
NoBegin == [stale |-> FALSE, retry |-> FALSE, old |-> 0, pend |-> 0, njobs |-> 0]

StartCall(op, url, max) ==
    /\ Idle
    /\ Len(calls) < max
    /\ url # UrlA => Cardinality({c \in 1..Len(calls) : calls[c].url # UrlA}) < MaxOther
    /\ calls' = Append(calls, [op |-> op, url |-> url, vid |-> NoMatch, pc |-> "init",
                               task |-> 0, job |-> 0, cx |-> FALSE, res |-> NoRes,
                               b |-> NoBegin, gone |-> FALSE])
    /\ ready' = Append(ready, Item("call", Len(calls) + 1))
    /\ UNCHANGED <<now, cache, audio_cache, inflight, lock, tasks, jobs, running, cancels>>

\* -------------------------------------------------------------- executor
Queued == {j \in 1..Len(jobs) : jobs[j].st = "queued"}
Executing == {j \in 1..Len(jobs) : jobs[j].st = "running"}

\* run_in_executor(self._executor, fn, url): the new work item
Submit(op, url, vid, owner) ==
    Append(jobs, [op |-> op, url |-> url, vid |-> vid, st |-> "queued", resp |-> NoResp,
                  ret |-> NoRet, afut |-> "pending", owner |-> owner])

\* (mutation) a pool that starts a thread for every work item
WorkerFreeAlways == TRUE

\* ThreadPoolExecutor(max_workers=3): a thread is free
WorkerFree == Cardinality(Executing) < max_workers

\* a free worker thread takes the oldest queued work item and calls the
\* Extraction Client
ThreadStart(j) ==
    /\ j \in Queued
    /\ j = Min(Queued)
    /\ WorkerFree
    /\ jobs' = [jobs EXCEPT ![j].st = "running"]
    /\ UNCHANGED <<now, cache, audio_cache, inflight, lock, calls, tasks, ready,
                   running, cancels>>

\* the Extraction Client answers `resp`; the thread function returns or
\* raises, and the result is handed to the loop (call_soon_threadsafe)
ThreadFinish(j, resp) ==
    /\ j \in Executing
    /\ jobs' = [jobs EXCEPT ![j].st = "finished",
                            ![j].resp = resp,
                            ![j].ret = IF jobs[j].op = "meta"
                                       THEN extract_info_sync(resp)
                                       ELSE extract_audio_url_sync(resp)]
    /\ ready' = Append(ready, Item("fut", j))
    /\ UNCHANGED <<now, cache, audio_cache, inflight, lock, calls, tasks,
                   running, cancels>>

\* the loop copies the work item's result into the awaited future and
\* schedules whoever awaits it; a cancelled future is left alone
FutureDone(j) ==
    /\ Next1("fut", j)
    /\ IF jobs[j].afut = "pending"
       THEN /\ jobs' = [jobs EXCEPT ![j].afut = "done"]
            /\ ready' = Append(Tail(ready),
                               Item(IF jobs[j].op = "meta" THEN "task" ELSE "call",
                                    jobs[j].owner))
       ELSE /\ jobs' = jobs
            /\ ready' = Tail(ready)
    /\ UNCHANGED <<now, cache, audio_cache, inflight, lock, calls, tasks,
                   running, cancels>>

\* -------------------------------------------------------- _fetch_metadata
Wakeups(ws) == [i \in 1..Len(ws) |-> Item("call", ws[i])]

\* the task's first step: up to `await loop.run_in_executor(...)`; a task
\* cancelled before its first step never runs its coroutine
TaskStart(t) ==
    /\ Next1("task", t)
    /\ tasks[t].st = "new"
    /\ IF tasks[t].must_cancel
       THEN /\ tasks' = [tasks EXCEPT ![t].st = "done", ![t].out = Cancelled]
            /\ ready' = Tail(ready) \o Wakeups(tasks[t].waiters)
            /\ jobs' = jobs
       ELSE /\ jobs' = Submit("meta", tasks[t].url, tasks[t].vid, t)
            /\ tasks' = [tasks EXCEPT ![t].st = "waiting", ![t].job = Len(jobs) + 1]
            /\ ready' = Tail(ready)
    /\ UNCHANGED <<now, cache, audio_cache, inflight, lock, calls, running, cancels>>

\* what _fetch_metadata makes of the thread function's result
fetch_metadata(ret, j) ==
    IF ret.st = "exc" THEN Fail(ret.err, j)
    ELSE IF ret.v = "" THEN Fail("ValueError: Could not extract video information", j)
    ELSE Ok("metadata", j)

\* the task resumes from the await, runs to its end and wakes its waiters
TaskResume(t) ==
    /\ Next1("task", t)
    /\ tasks[t].st = "waiting"
    /\ LET j == tasks[t].job
           out == IF tasks[t].must_cancel \/ jobs[j].afut = "cancelled"
                  THEN Cancelled
                  ELSE fetch_metadata(jobs[j].ret, j)
       IN  tasks' = [tasks EXCEPT ![t].st = "done", ![t].out = out]
    /\ ready' = Tail(ready) \o Wakeups(tasks[t].waiters)
    /\ UNCHANGED <<now, cache, audio_cache, inflight, lock, calls, jobs, running, cancels>>

\* ------------------------------------------------------ get_video_metadata
\* history: the state a call found at its first step
JobsFor(op, video_id) ==
    {j \in 1..Len(jobs) : jobs[j].op = op /\ jobs[j].vid = video_id}

InProgress(video_id) ==
    {c \in 1..Len(calls) : calls[c].vid = video_id /\ calls[c].pc \notin {"init", "done"}}

Kind(c) == IF calls[c].op = "audio" THEN "audio" ELSE "meta"

\* What a call finds at its first step (history).
\*   stale: an entry whose expiry has been reached, and no other call for
\*          the identifier in progress; old: the work item it came from
\*   retry: an earlier call of the same kind for the identifier has failed
\*          in its extraction, and no other call for it is in progress
\*   pend:  the computation for the identifier that has not finished
\*   njobs: the work items submitted so far
Begin(c, video_id) ==
    LET entry == IF video_id = NoMatch THEN NoEntry
                 ELSE IF Kind(c) = "audio" THEN audio_cache[video_id]
                 ELSE cache[video_id]
        alone == InProgress(video_id) \ {c} = {}
        failed == {d \in 1..Len(calls) :
                      /\ calls[d].pc = "done" /\ calls[d].vid = video_id
                      /\ Kind(d) = Kind(c) /\ calls[d].op # "fast"
                      /\ calls[d].res.st = "fail" /\ calls[d].res.src # 0}
        unfinished == {t \in 1..Len(tasks) : tasks[t].vid = video_id /\ tasks[t].st # "done"}
    IN  [stale |-> entry.present /\ now >= entry.expires_at /\ alone,
         retry |-> video_id # NoMatch /\ failed # {} /\ ~entry.present /\ alone,
         old |-> entry.src,
         pend |-> IF Kind(c) = "meta" /\ calls[c].op # "fast" /\ unfinished # {}
                  THEN Min(unfinished) ELSE 0,
         njobs |-> Len(jobs)]

\* the call returns or raises `res`
Finish(cs, c, res) == [cs EXCEPT ![c].pc = "done", ![c].res = res]

Done(c, res) == Finish(calls, c, res)

\* the call's first step has extracted `video_id`
Begun(c, video_id) == [calls EXCEPT ![c].vid = video_id, ![c].b = Begin(c, video_id)]

\* lines 182-189: the identifier and the first cache check, then on to the
\* lock
MetaBegin(c) ==
    /\ Next1("call", c)
    /\ calls[c].op = "meta"
    /\ calls[c].pc = "init"
    /\ ready' = Tail(ready)
    /\ LET video_id == extract_video_id(calls[c].url)
       IN  IF video_id = NoMatch
           THEN /\ calls' = Finish(Begun(c, video_id), c,
                                    Fail("ValueError: Invalid YouTube URL", 0))
                /\ running' = 0
           ELSE IF Fresh(cache[video_id])
           THEN /\ calls' = Finish(Begun(c, video_id), c, Hit(cache[video_id], "first check"))
                /\ running' = 0
           ELSE /\ calls' = [Begun(c, video_id) EXCEPT ![c].pc = "lock1"]
                /\ running' = c
    /\ UNCHANGED <<now, cache, audio_cache, inflight, lock, tasks, jobs, cancels>>

\* `async with self._lock` (lines 192 and 205): a free lock is taken
\* without suspending
Acquire(c, pc, next) ==
    /\ running = c
    /\ calls[c].pc = pc
    /\ lock = 0
    /\ lock' = c
    /\ calls' = [calls EXCEPT ![c].pc = next]
    /\ UNCHANGED <<now, cache, audio_cache, inflight, tasks, jobs, ready, running, cancels>>

MetaLock1(c) == Acquire(c, "lock1", "crit1")

\* (mutation) the lock is kept past the end of the `async with` block
ReleaseForgotten(c) == c

\* the end of an `async with self._lock` block (lines 200 and 207)
Release(c) == 0

\* (mutation) the registry is never consulted
InflightTaskIgnored(video_id) == 0

\* `self._inflight.get(video_id)`
InflightTask(video_id) == inflight[video_id]

\* (mutation) the new task is not put into the registry
RegisterForgotten(video_id, task) == inflight

\* `self._inflight[video_id] = task`
Register(video_id, task) == [inflight EXCEPT ![video_id] = task]

\* lines 193-200 under the lock, and its release
MetaCrit1(c) ==
    /\ running = c
    /\ calls[c].pc = "crit1"
    /\ lock' = Release(c)
    /\ LET video_id == calls[c].vid
           task == InflightTask(video_id)
           new == Len(tasks) + 1
       IN  IF Fresh(cache[video_id])
           THEN /\ calls' = Done(c, Hit(cache[video_id], "second check"))
                /\ running' = 0
                /\ UNCHANGED <<inflight, tasks, ready>>
           ELSE IF task = 0
           THEN /\ tasks' = Append(tasks, [vid |-> video_id, url |-> calls[c].url,
                                           st |-> "new", job |-> 0, must_cancel |-> FALSE,
                                           out |-> NoRes, waiters |-> <<>>])
                /\ inflight' = Register(video_id, new)
                /\ ready' = Append(ready, Item("task", new))
                /\ calls' = [calls EXCEPT ![c].task = new, ![c].pc = "await"]
                /\ running' = c
           ELSE /\ calls' = [calls EXCEPT ![c].task = task, ![c].pc = "await"]
                /\ running' = c
                /\ UNCHANGED <<inflight, tasks, ready>>
    /\ UNCHANGED <<now, cache, audio_cache, jobs, cancels>>

\* line 203, `await task`: a finished task does not suspend the caller
MetaAwait(c) ==
    /\ running = c
    /\ calls[c].pc = "await"
    /\ LET t == calls[c].task
       IN  IF tasks[t].st = "done"
           THEN /\ calls' = [calls EXCEPT ![c].pc = "lock2"]
                /\ UNCHANGED <<tasks, running>>
           ELSE /\ calls' = [calls EXCEPT ![c].pc = "waiting"]
                /\ tasks' = [tasks EXCEPT ![t].waiters = Append(@, c)]
                /\ running' = 0
    /\ UNCHANGED <<now, cache, audio_cache, inflight, lock, jobs, ready, cancels>>

\* the task is done: the caller resumes in the `finally`
MetaResume(c) ==
    /\ Next1("call", c)
    /\ calls[c].pc = "waiting"
    /\ ready' = Tail(ready)
    /\ running' = c
    /\ calls' = [calls EXCEPT ![c].pc = "lock2"]
    /\ UNCHANGED <<now, cache, audio_cache, inflight, lock, tasks, jobs, cancels>>

MetaLock2(c) == Acquire(c, "lock2", "crit2")

\* what `await task` gave this caller
Awaited(c) == IF calls[c].cx THEN Cancelled ELSE tasks[calls[c].task].out

\* lines 217-220: a ValueError is re-raised, any other Exception becomes a
\* ValueError; CancelledError is no Exception
Reraise(out) ==
    IF out.st = "fail" /\ out.err = "DownloadError"
    THEN Fail("ValueError: Failed to fetch video metadata: DownloadError", out.src)
    ELSE out

\* (mutation) the registry entry is never removed
StillMineNever(video_id, task) == FALSE

\* (mutation) the registry entry is removed whatever it holds
StillMineAlways(video_id, task) == TRUE

\* `self._inflight.get(video_id) is task`
StillMine(video_id, task) == inflight[video_id] = task

\* (mutation) the entry is left in the registry
RemovedNot(video_id) == inflight

\* `del self._inflight[video_id]`
Removed(video_id) == [inflight EXCEPT ![video_id] = 0]

\* lines 205-207, the guarded removal, and the release; a failure leaves
\* the function here
MetaCrit2(c) ==
    /\ running = c
    /\ calls[c].pc = "crit2"
    /\ lock' = Release(c)
    /\ inflight' = IF StillMine(calls[c].vid, calls[c].task)
                   THEN Removed(calls[c].vid)
                   ELSE inflight
    /\ IF Awaited(c).st = "ok"
       THEN /\ calls' = [calls EXCEPT ![c].pc = "store"]
            /\ running' = c
       ELSE /\ calls' = Done(c, Reraise(Awaited(c)))
            /\ running' = 0
    /\ UNCHANGED <<now, cache, audio_cache, tasks, jobs, ready, cancels>>

\* lines 210-215
MetaStore(c) ==
    /\ running = c
    /\ calls[c].pc = "store"
    /\ cache' = [cache EXCEPT ![calls[c].vid] =
                    Put(Awaited(c).v, Awaited(c).src, cache_ttl_seconds)]
    /\ calls' = Done(c, [Awaited(c) EXCEPT !.exp = now + cache_ttl_seconds])
    /\ running' = 0
    /\ UNCHANGED <<now, audio_cache, inflight, lock, tasks, jobs, ready, cancels>>

\* ----------------------------------------------------------- get_audio_url
\* lines 224-237: the identifier, the cache check and the work item; the
\* caller suspends on the executor's future
AudioBegin(c) ==
    /\ Next1("call", c)
    /\ calls[c].op = "audio"
    /\ calls[c].pc = "init"
    /\ LET video_id == extract_video_id(calls[c].url)
           cached_audio == IF video_id = NoMatch THEN Absent
                           ELSE get_cached_audio_url(video_id)
       IN  IF video_id = NoMatch
           THEN /\ calls' = Finish(Begun(c, video_id), c,
                                    Fail("ValueError: Invalid YouTube URL", 0))
                /\ jobs' = jobs
           ELSE IF cached_audio.st = "ok" /\ cached_audio.v # ""
           THEN /\ calls' = Finish(Begun(c, video_id), c, cached_audio)
                /\ jobs' = jobs
           ELSE /\ jobs' = Submit("audio", calls[c].url, video_id, c)
                /\ calls' = [Begun(c, video_id) EXCEPT ![c].pc = "await_fut",
                                                       ![c].job = Len(jobs) + 1]
    /\ ready' = Tail(ready)
    /\ UNCHANGED <<now, cache, audio_cache, inflight, lock, tasks, running, cancels>>

\* lines 233-244: the future is settled; an exception leaves the function,
\* a url is cached and returned
AudioResume(c) ==
    /\ Next1("call", c)
    /\ calls[c].pc = "await_fut"
    /\ ready' = Tail(ready)
    /\ LET j == calls[c].job
           ret == jobs[j].ret
       IN  IF calls[c].cx \/ jobs[j].afut = "cancelled"
           THEN /\ calls' = Done(c, Cancelled)
                /\ audio_cache' = audio_cache
           ELSE IF ret.st = "exc"
           THEN /\ calls' = Done(c, Fail(ret.err, j))
                /\ audio_cache' = audio_cache
           ELSE /\ audio_cache' = [audio_cache EXCEPT ![calls[c].vid] =
                                      Put(ret.v, j, audio_cache_ttl_seconds)]
                /\ calls' = Done(c, [Ok(ret.v, j) EXCEPT
                                         !.exp = now + audio_cache_ttl_seconds])
    /\ UNCHANGED <<now, cache, inflight, lock, tasks, jobs, running, cancels>>

\* ------------------------------------------- get_video_info_fast (video.py)
\* the cache peek of the fast endpoint; on a miss it goes to oEmbed
FastInfo(c) ==
    /\ Next1("call", c)
    /\ calls[c].op = "fast"
    /\ calls[c].pc = "init"
    /\ ready' = Tail(ready)
    /\ LET video_id == extract_video_id(calls[c].url)
       IN  IF video_id = NoMatch
           THEN calls' = Finish(Begun(c, video_id), c,
                                Fail("HTTPException: Invalid YouTube URL", 0))
           ELSE calls' = Finish(Begun(c, video_id), c, get_cached_metadata(video_id))
    /\ UNCHANGED <<now, cache, audio_cache, inflight, lock, tasks, jobs, running, cancels>>

\* ------------------------------------------------------------ cancellation
\* future.cancel() of the executor's future: the awaiting coroutine is
\* scheduled with CancelledError; a work item no thread has taken is dropped
CancelFuture(j, waker) ==
    /\ jobs' = [jobs EXCEPT ![j].afut = "cancelled",
                            ![j].st = IF @ = "queued" THEN "cancelled" ELSE @]
    /\ ready' = Append(ready, waker)

\* the request's handler task is cancelled (the client went away) while it
\* is suspended: Task.cancel() cancels the future the task awaits
Cancel(c) ==
    /\ Idle
    /\ cancels < MaxCancels
    /\ calls[c].pc \in {"waiting", "await_fut"}
    /\ cancels' = cancels + 1
    /\ IF calls[c].pc = "await_fut"
       THEN IF jobs[calls[c].job].afut = "pending"
            THEN /\ CancelFuture(calls[c].job, Item("call", c))
                 /\ calls' = [calls EXCEPT ![c].gone = TRUE]
                 /\ UNCHANGED tasks
            ELSE /\ calls' = [calls EXCEPT ![c].gone = TRUE, ![c].cx = TRUE]
                 /\ UNCHANGED <<jobs, tasks, ready>>
       ELSE LET t == calls[c].task
                j == tasks[t].job
            IN  IF tasks[t].st = "done"
                THEN /\ calls' = [calls EXCEPT ![c].gone = TRUE, ![c].cx = TRUE]
                     /\ UNCHANGED <<jobs, tasks, ready>>
                ELSE IF tasks[t].st = "waiting" /\ jobs[j].afut = "pending"
                THEN /\ CancelFuture(j, Item("task", t))
                     /\ calls' = [calls EXCEPT ![c].gone = TRUE]
                     /\ UNCHANGED tasks
                ELSE /\ tasks' = [tasks EXCEPT ![t].must_cancel = TRUE]
                     /\ calls' = [calls EXCEPT ![c].gone = TRUE]
                     /\ UNCHANGED <<jobs, ready>>
    /\ UNCHANGED <<now, cache, audio_cache, inflight, lock, running>>

\* ---------------------------------------------------------- specifications
Calls == 1..Len(calls)
Jobs == 1..Len(jobs)
Tasks == 1..Len(tasks)

\* the worker threads and the loop's handling of their results
ExecutorOn(responses) ==
    \/ \E j \in Jobs : ThreadStart(j)
    \/ \E j \in Executing, resp \in responses : ThreadFinish(j, resp)
    \/ \E j \in Jobs : FutureDone(j)

Executor == ExecutorOn(ClientResponses)

MetaSteps ==
    \/ \E t \in Tasks : TaskStart(t)
    \/ \E t \in Tasks : TaskResume(t)
    \/ \E c \in Calls : MetaBegin(c)
    \/ \E c \in Calls : MetaLock1(c)
    \/ \E c \in Calls : MetaCrit1(c)
    \/ \E c \in Calls : MetaAwait(c)
    \/ \E c \in Calls : MetaResume(c)
    \/ \E c \in Calls : MetaLock2(c)
    \/ \E c \in Calls : MetaCrit2(c)
    \/ \E c \in Calls : MetaStore(c)

AudioSteps ==
    \/ \E c \in Calls : AudioBegin(c)
    \/ \E c \in Calls : AudioResume(c)

\* get_video_metadata alone, no request cancelled
NextMeta ==
    \/ Tick
    \/ \E url \in Urls : StartCall("meta", url, MaxMetaCalls)
    \/ Executor
    \/ MetaSteps

SpecMeta == Init /\ [][NextMeta]_vars

\* get_audio_url alone, no request cancelled
NextAudio ==
    \/ Tick
    \/ \E url \in Urls : StartCall("audio", url, MaxCalls)
    \/ Executor
    \/ AudioSteps

SpecAudio == Init /\ [][NextAudio]_vars

\* every kind of request, no request cancelled
NextMixed ==
    \/ Tick
    \/ \E op \in Ops, url \in Urls : StartCall(op, url, MaxMixedCalls)
    \/ Executor
    \/ MetaSteps
    \/ AudioSteps
    \/ \E c \in Calls : FastInfo(c)

SpecMixed == Init /\ [][NextMixed]_vars

\* get_video_metadata for one url, requests may be cancelled
NextCancel ==
    \/ Tick
    \/ StartCall("meta", UrlA, MaxCalls)
    \/ Executor
    \/ MetaSteps
    \/ \E c \in Calls : Cancel(c)

SpecCancel == Init /\ [][NextCancel]_vars

\* the worker pool under load: both kinds of request, every extraction
\* succeeding, the clock left out
NextPool ==
    \/ \E op \in {"meta", "audio"}, url \in {UrlA, UrlB} : StartCall(op, url, MaxPoolCalls)
    \/ ExecutorOn({InfoResponse})
    \/ MetaSteps
    \/ AudioSteps

SpecPool == Init /\ [][NextPool]_vars

\* the selector on every listing: one get_audio_url request, the Extraction
\* Client answering with any of its responses
NextSelect ==
    \/ StartCall("audio", UrlA, MaxSelectCalls)
    \/ ExecutorOn(SelectorResponses)
    \/ AudioSteps

SpecSelect == Init /\ [][NextSelect]_vars

\* extract_video_id on every url of ExtractUrls, as the fast endpoint and
\* get_video_metadata call it first
NextExtract ==
    \/ \E op \in {"fast", "meta"}, url \in ExtractUrls : StartCall(op, url, MaxExtractCalls)
    \/ \E c \in Calls : FastInfo(c)
    \/ \E c \in Calls : MetaBegin(c)

SpecExtract == Init /\ [][NextExtract]_vars

\* every kind of request; the loop runs its ready callbacks, the pool's
\* threads take queued work items and the clock advances, but nothing makes
\* the Extraction Client return
LoopSteps ==
    \/ \E j \in Jobs : FutureDone(j)
    \/ MetaSteps
    \/ AudioSteps
    \/ \E c \in Calls : FastInfo(c)

SpecStall ==
    /\ Init /\ [][NextMixed]_vars
    /\ WF_vars(LoopSteps)
    /\ WF_vars(\E j \in Jobs : ThreadStart(j))
    /\ WF_vars(Tick)

\* everything
Next ==
    \/ NextMixed
    \/ \E c \in Calls : Cancel(c)

Spec == Init /\ [][Next]_vars

\* ------------------------------------------------------------------ claims
MetaCalls == {c \in Calls : calls[c].op = "meta"}
AudioCalls == {c \in Calls : calls[c].op = "audio"}
Returned1(c) == calls[c].pc = "done"

\* two results are the same value or the same failure
SameOutcome(r1, r2) ==
    r1.st = r2.st /\ r1.v = r2.v /\ r1.src = r2.src /\ r1.err = r2.err

\* the work items a computation submitted
JobsOfTask(t) == {j \in Jobs : jobs[j].op = "meta" /\ jobs[j].owner = t}

\* the Extraction Client calls submitted and not yet returned
Outstanding(op, video_id) ==
    {j \in JobsFor(op, video_id) : jobs[j].st \in {"queued", "running"}}

\* C1: single-flight for metadata. A get_video_metadata call that finds no
\* unexpired entry and starts while the computation another call awaits for
\* the same identifier has not finished attaches to that computation; the computation invokes the
\* Extraction Client once; and the calls all return the same value or all
\* fail with the same failure.
C1_SingleFlight ==
    \A c1 \in MetaCalls, c2 \in MetaCalls :
        (/\ c1 # c2
         /\ calls[c1].task # 0
         /\ calls[c2].b.pend = calls[c1].task
         /\ calls[c2].pc \notin {"init", "lock1", "crit1"}
         /\ calls[c2].res.hit = "")
        => /\ calls[c2].task = calls[c1].task
           /\ Cardinality(JobsOfTask(calls[c1].task)) <= 1
           /\ (Returned1(c1) /\ Returned1(c2)) =>
                 /\ SameOutcome(calls[c1].res, calls[c2].res)
                 /\ calls[c1].res.st \in {"ok", "fail"}
                 /\ Cardinality(JobsOfTask(calls[c1].task)) = 1
                 /\ calls[c1].res.src \in JobsOfTask(calls[c1].task)

\* three concurrent calls for one identifier have all returned the value of
\* one extraction
C1_Witness ==
    \E c1 \in MetaCalls, c2 \in MetaCalls, c3 \in MetaCalls :
        /\ c1 # c2 /\ c2 # c3 /\ c1 # c3
        /\ calls[c2].b.pend = calls[c1].task /\ calls[c3].b.pend = calls[c1].task
        /\ calls[c1].task # 0
        /\ \A c \in {c1, c2, c3} : Returned1(c) /\ calls[c].res.st = "ok"

\* C2: at most one Extraction Client call of the metadata kind is
\* outstanding for an identifier, in every reachable state.
C2_OneOutstandingMeta ==
    \A id \in VideoIds : Cardinality(Outstanding("meta", id)) <= 1

\* after an expiry, one call is outstanding for an identifier on which two
\* calls wait
C2_Witness ==
    \E id \in VideoIds :
        /\ Cardinality(Outstanding("meta", id)) = 1
        /\ cache[id].present /\ now >= cache[id].expires_at
        /\ Cardinality({c \in MetaCalls : calls[c].vid = id /\ calls[c].pc = "waiting"}) = 2

\* C3: single-flight for audio: at most one Extraction Client call of the
\* audio-url kind is outstanding for an identifier, however many
\* get_audio_url calls for it are concurrent.
C3_OneOutstandingAudio ==
    \A id \in VideoIds : Cardinality(Outstanding("audio", id)) <= 1

\* C4: cache hit. A get_video_metadata call for an identifier made after
\* a call for it has returned a value, and before the expiry of the entry
\* that value is in, returns at once the same value; no work item and no
\* computation is created for it.
C4_CacheHit ==
    [][\A c2 \in MetaCalls :
          (calls[c2].pc = "init" /\ calls'[c2].pc # "init") =>
              \A c1 \in MetaCalls :
                  (/\ Returned1(c1)
                   /\ calls[c1].res.st = "ok"
                   /\ calls[c1].vid = extract_video_id(calls[c2].url)
                   /\ now < calls[c1].res.exp)
                  => /\ calls'[c2].pc = "done"
                     /\ SameOutcome(calls'[c2].res, calls[c1].res)
                     /\ calls'[c2].res.hit # ""
                     /\ jobs' = jobs
                     /\ tasks' = tasks]_vars

\* C5: expiry. A get_video_metadata call made once the expiry of the
\* identifier's entry has been reached, with no other call for the identifier
\* in progress, is not served from the cache: it creates a computation that
\* submits exactly one work item, later than the one the entry came from,
\* and what it returns is that work item's result, not the entry's value.
C5_Expiry ==
    \A c \in MetaCalls :
        (calls[c].b.stale /\ Returned1(c))
        => /\ calls[c].res.hit = ""
           /\ calls[c].res.st \in {"ok", "fail"}
           /\ calls[c].task # 0
           /\ JobsOfTask(calls[c].task) = {calls[c].res.src}
           /\ calls[c].res.src > calls[c].b.njobs
           /\ calls[c].res.src # calls[c].b.old

\* a call that started on an expired entry has returned the value of a
\* second extraction, which is now the entry
C5_Witness ==
    \E c \in MetaCalls :
        /\ calls[c].b.stale /\ Returned1(c)
        /\ calls[c].res.st = "ok"
        /\ calls[c].b.old # 0
        /\ cache[calls[c].vid].src = calls[c].res.src

\* the entry a call's cache check reads
EntryFor(c) ==
    LET video_id == extract_video_id(calls[c].url)
    IN  IF video_id = NoMatch THEN NoEntry
        ELSE IF calls[c].op = "audio" THEN audio_cache[video_id]
        ELSE cache[video_id]

\* C6: no read path returns an entry whose expiry has been reached. A call
\* that returns a cached value (get_cached_metadata, get_cached_audio_url,
\* either cache check of get_video_metadata) returns the value of an entry
\* with now < expires_at; a cache check that finds an entry with
\* now >= expires_at goes on as if there were none.
C6_NoExpiredRead ==
    [][\A c \in Calls :
          /\ (calls[c].pc # "done" /\ calls'[c].pc = "done" /\ calls'[c].res.hit # "")
             => /\ EntryFor(c).present
                /\ now < EntryFor(c).expires_at
                /\ calls'[c].res.st = "ok"
                /\ calls'[c].res.v = EntryFor(c).v
                /\ calls'[c].res.exp = EntryFor(c).expires_at
          /\ (/\ calls[c].pc \in {"init", "crit1"}
              /\ calls'[c].pc # calls[c].pc
              /\ EntryFor(c).present /\ now >= EntryFor(c).expires_at)
             => /\ calls'[c].res.hit = ""
                /\ calls'[c].res.st \in {"none", "absent"}]_vars

\* get_cached_metadata has served an entry written after the clock had
\* advanced, before that entry's expiry
C6_Witness ==
    \E c \in Calls :
        /\ calls[c].op = "fast" /\ Returned1(c)
        /\ calls[c].res.hit = "get_cached_metadata"
        /\ calls[c].res.exp > cache_ttl_seconds
        /\ now < calls[c].res.exp

\* C7: no negative caching. An entry of either cache holds the value of a
\* work item that returned one; once a get_video_metadata call has failed,
\* the computation it awaited is not in the registry; and a call made after
\* a failed extraction for its identifier, with no entry and no other call
\* for it in progress, has a new work item submitted and returns that work
\* item's outcome.
C7_NoNegativeCaching ==
    /\ \A id \in VideoIds :
          /\ cache[id].present =>
                /\ cache[id].src \in JobsFor("meta", id)
                /\ jobs[cache[id].src].ret.st = "ok"
                /\ jobs[cache[id].src].ret.v # ""
          /\ audio_cache[id].present =>
                /\ audio_cache[id].src \in JobsFor("audio", id)
                /\ jobs[audio_cache[id].src].ret.st = "ok"
                /\ jobs[audio_cache[id].src].ret.v = audio_cache[id].v
    /\ \A c \in MetaCalls :
          (Returned1(c) /\ calls[c].res.st = "fail" /\ calls[c].task # 0)
          => inflight[calls[c].vid] # calls[c].task
    /\ \A c \in MetaCalls \cup AudioCalls :
          (calls[c].b.retry /\ Returned1(c))
          => /\ calls[c].res.hit = ""
             /\ calls[c].res.src > calls[c].b.njobs
             /\ jobs[calls[c].res.src].op = Kind(c)
             /\ jobs[calls[c].res.src].vid = calls[c].vid

\* after a failed extraction left no entry and no registered computation,
\* the next call for the identifier got the value of a second extraction
C7_Witness ==
    \E c1 \in MetaCalls, c2 \in MetaCalls :
        /\ Returned1(c1) /\ calls[c1].res.st = "fail" /\ calls[c1].res.src # 0
        /\ calls[c2].b.retry /\ Returned1(c2)
        /\ calls[c2].vid = calls[c1].vid
        /\ calls[c2].res.st = "ok"
        /\ calls[c2].res.src > calls[c1].res.src

\* C8: cancelling one caller of get_video_metadata does not cancel the
\* shared computation: no computation ends cancelled, and no caller that
\* was not itself cancelled receives a cancellation.
C8_CancelLeavesSharedWork ==
    /\ \A t \in Tasks : tasks[t].out.st # "cancelled"
    /\ \A c \in MetaCalls :
          (Returned1(c) /\ ~calls[c].gone) => calls[c].res.st # "cancelled"

\* C9: every call eventually returns, whether or not the Extraction Client
\* ever responds.
C9_EveryCallReturns ==
    \A c \in 1..MaxMixedCalls :
        (Len(calls) >= c) ~> (Len(calls) >= c /\ calls[c].pc = "done")

\* C10: worker-pool bound. The Extraction Client calls executing at the same
\* time, metadata and audio and all identifiers together, are never more
\* than the pool's three threads; a work item is taken only while fewer
\* than three execute.
C10_PoolBound ==
    /\ Cardinality(Executing) <= max_workers
    /\ \A j \in Queued : \A i \in Jobs \ Queued : i < j

\* three calls execute, of both kinds and for two identifiers, and a fourth
\* work item waits in the queue
C10_Witness ==
    /\ Cardinality(Executing) = max_workers
    /\ Queued # {}
    /\ {jobs[j].op : j \in Executing} = {"meta", "audio"}
    /\ Cardinality({jobs[j].vid : j \in Executing}) = 2

\* C11: invalid url. A get_video_metadata or get_audio_url call for a url
\* from which no identifier can be extracted fails at its first step with
\* the invalid-url failure; that step submits no work item, creates no
\* computation and leaves both caches and the registry as they were.
C11_InvalidUrl ==
    [][\A c \in MetaCalls \cup AudioCalls :
          (calls[c].url = UrlBad /\ calls[c].pc = "init" /\ calls'[c].pc # "init")
          => /\ calls'[c].pc = "done"
             /\ calls'[c].res.st = "fail"
             /\ calls'[c].res.err = "ValueError: Invalid YouTube URL"
             /\ calls'[c].res.src = 0
             /\ jobs' = jobs /\ tasks' = tasks
             /\ cache' = cache /\ audio_cache' = audio_cache
             /\ inflight' = inflight]_vars

\* a call has failed on the url that matches no rule while the extraction
\* of a get_audio_url call for another url was running: that is still the
\* only work item, and the caches and the registry are empty
C11_Witness ==
    \E c1 \in MetaCalls, c2 \in AudioCalls :
        /\ calls[c1].url = UrlBad /\ Returned1(c1)
        /\ calls[c1].res.err = "ValueError: Invalid YouTube URL"
        /\ calls[c2].pc = "await_fut"
        /\ Len(jobs) = 1 /\ Executing = {1}
        /\ tasks = <<>>
        /\ \A id \in VideoIds :
              ~cache[id].present /\ ~audio_cache[id].present /\ inflight[id] = 0

\* C12: independence. The lock is held only by the call that has the loop,
\* inside one of its two lock blocks, never by a suspended call; a call
\* that arrives at the lock finds it free; and a suspended
\* get_video_metadata call waits for the computation of its own identifier
\* only. So a call for one identifier gets to create or attach to its
\* computation whatever extraction for another identifier is in flight.
C12_Independence ==
    /\ lock # 0 => running = lock /\ calls[lock].pc \in {"crit1", "crit2"}
    /\ \A c \in MetaCalls :
          /\ calls[c].pc \in {"lock1", "lock2"} => running = c /\ lock = 0
          /\ calls[c].pc = "waiting" =>
                /\ lock # c
                /\ tasks[calls[c].task].vid = calls[c].vid
                /\ \A j \in JobsOfTask(calls[c].task) : jobs[j].vid = calls[c].vid

\* while the extraction for one identifier is running and its caller is
\* suspended, a call for another identifier that started later has created
\* its own computation, whose work item a second thread runs
C12_Witness ==
    \E c1 \in MetaCalls, c2 \in MetaCalls :
        /\ c1 < c2
        /\ calls[c1].vid # calls[c2].vid
        /\ calls[c1].pc = "waiting" /\ calls[c2].pc = "waiting"
        /\ calls[c1].task # calls[c2].task
        /\ tasks[calls[c1].task].job \in Executing
        /\ tasks[calls[c2].task].job \in Executing
        /\ tasks[calls[c2].task].job > tasks[calls[c1].task].job
        /\ lock = 0

\* the finished best-audio work items whose answer held no direct url
Selected ==
    {j \in Jobs : /\ jobs[j].op = "audio" /\ jobs[j].st = "finished"
                  /\ jobs[j].resp.kind = "info" /\ jobs[j].resp.direct = ""}

\* the places of a listing whose audio codec is present and not "none"
Candidates(fs) == {i \in 1..Len(fs) : fs[i].acodec \notin {"", "none"}}

\* format a is not below format b for the pair (abr or 0, tbr or 0)
NotBelow(a, b) ==
    LET a1 == IF a.abr = -1 THEN 0 ELSE a.abr
        a2 == IF a.tbr = -1 THEN 0 ELSE a.tbr
        b1 == IF b.abr = -1 THEN 0 ELSE b.abr
        b2 == IF b.tbr = -1 THEN 0 ELSE b.tbr
    IN  a1 > b1 \/ (a1 = b1 /\ a2 >= b2)

\* C13: audio format selection. With no direct url, the selector fails with
\* "No audio formats available" when no format has an audio codec other
\* than "none"; otherwise its outcome is that of a format which has such a
\* codec and is maximal among those for (abr or 0, tbr or 0) compared
\* lexicographically. For the listing [none, aac 128, opus 160] it returns
\* the opus format's url.
C13_FormatSelection ==
    \A j \in Selected :
        LET fs == jobs[j].resp.formats
        IN  /\ Candidates(fs) = {} =>
                  jobs[j].ret = Raised("ValueError: No audio formats available")
            /\ Candidates(fs) # {} =>
                  \E i \in Candidates(fs) :
                      /\ \A k \in Candidates(fs) : NotBelow(fs[i], fs[k])
                      /\ jobs[j].ret =
                            IF fs[i].url # "" THEN Returned(fs[i].url)
                            ELSE Raised("ValueError: Failed to resolve audio stream URL")
            /\ jobs[j].resp = InfoResponse => jobs[j].ret = Returned("u2")

\* the selector has run on the listing [none, aac 128, opus 160] and the
\* caller has returned the opus format's url
C13_Witness ==
    \E c \in AudioCalls :
        /\ Returned1(c) /\ calls[c].res.st = "ok" /\ calls[c].res.v = "u2"
        /\ calls[c].job \in Selected
        /\ jobs[calls[c].job].resp = InfoResponse

\* the calls whose first step has run
Started == {c \in Calls : calls[c].pc # "init"}

\* C14: identifier extraction. For a short-link url, a watch url with
\* further query parameters and a shorts url that hold "abc123",
\* extract_video_id returns "abc123"; for a url made of a rule's prefix and
\* a run of characters other than & \n ? #, ended by nothing or by one of
\* those, it returns the whole run; for a url no rule matches it returns
\* None and the caller fails with the invalid-url failure.
C14_IdentifierExtraction ==
    \A c \in Started :
        /\ \A k \in ExtractCases : k.url = calls[c].url => calls[c].vid = k.id
        /\ calls[c].url \in { <<"https://www.", "youtu.be/", "abc123">>,
                              <<"https://www.", "youtube.com/watch", "?", "v=", "abc123",
                                "&", "t=5">>,
                              <<"https://www.", "youtube.com/shorts/", "abc123">> }
           => calls[c].vid = <<"abc123">>
        /\ (calls[c].url = <<"https://example.com/video">> /\ Returned1(c))
           => /\ calls[c].vid = NoMatch
              /\ calls[c].res.st = "fail"
              /\ calls[c].res.err \in {"ValueError: Invalid YouTube URL",
                                       "HTTPException: Invalid YouTube URL"}

\* the identifier of a watch url with a further query parameter has been
\* extracted, and it is "abc123"
C14_Witness ==
    \E c \in Started :
        /\ calls[c].url = <<"https://www.", "youtube.com/watch", "?", "v=", "abc123",
                            "&", "t=5">>
        /\ calls[c].vid = <<"abc123">>


\* the step of call c that runs lines 205-207
Crit2Step(c) == calls[c].pc = "crit2" /\ calls'[c].pc # "crit2"

\* C15: guarded handle removal. A registry entry is removed only by a
\* caller whose awaited computation has settled and only when the entry is
\* the very handle that caller awaited; such a caller does remove it; and a
\* caller that finds another handle registered for its identifier leaves
\* the registry as it is.
C15_GuardedRemoval ==
    [][ /\ \A id \in VideoIds :
               (inflight[id] # 0 /\ inflight'[id] # inflight[id]) =>
                   \E c \in MetaCalls :
                       /\ Crit2Step(c)
                       /\ calls[c].vid = id
                       /\ calls[c].task = inflight[id]
                       /\ tasks[calls[c].task].st = "done"
                       /\ inflight'[id] = 0
        /\ \A c \in MetaCalls :
               Crit2Step(c) =>
                   IF inflight[calls[c].vid] = calls[c].task
                   THEN inflight' = [inflight EXCEPT ![calls[c].vid] = 0]
                   ELSE inflight' = inflight
      ]_vars

\* a caller has passed the guarded removal while a handle other than the
\* one it awaited was registered for its identifier, and that handle is
\* still registered
C15_Witness ==
    \E c \in MetaCalls :
        /\ calls[c].pc = "store"
        /\ inflight[calls[c].vid] \notin {0, calls[c].task}
        /\ inflight[calls[c].vid] > calls[c].task


\* the step of call c that runs `await task` for a task it found registered
AttachStep(c) ==
    /\ calls[c].pc = "crit1"
    /\ calls'[c].pc = "await"
    /\ tasks' = tasks

\* the step of call c that runs lines 210-213
StoreStep(c) == calls[c].pc = "store" /\ calls'[c].pc = "done"

\* C16: handle removal precedes cache insertion and leaves no stale handle.
\* When a call inserts a computation's result into the cache, the
\* computation's handle is no longer registered; and no call takes from the
\* registry a handle whose computation has already completed (a call's
\* first step and its look into the registry run without suspension, so
\* such a call has started after the completion).
C16_NoStaleHandle ==
    [][ /\ \A c \in MetaCalls :
               StoreStep(c) => inflight[calls[c].vid] # calls[c].task
        /\ \A c \in MetaCalls :
               AttachStep(c) => tasks[calls'[c].task].st # "done"
      ]_vars


\* C17: on success only the producing path writes the cache. A call that
\* inserts a computation's result into the metadata cache does so when no
\* insertion of that computation's result has been made before, the entry
\* it writes expires the TTL after the time of the insertion, and every
\* call that returns a computation's value does so with the entry written.
C17_OneInsertion ==
    [][ \A c \in MetaCalls :
            LET id == calls[c].vid
            IN  /\ StoreStep(c) =>
                       /\ ~(cache[id].present /\ cache[id].src = Awaited(c).src)
                       /\ cache'[id] = [present |-> TRUE, v |-> Awaited(c).v,
                                        src |-> Awaited(c).src,
                                        expires_at |-> now + cache_ttl_seconds]
                /\ (calls[c].pc # "done" /\ calls'[c].pc = "done"
                        /\ calls'[c].res.st = "ok") =>
                       /\ cache'[calls'[c].vid].present
                       /\ cache'[calls'[c].vid].src = calls'[c].res.src
      ]_vars


\* the work items of get_audio_url whose extraction gave an info dictionary
\* and whose thread function has finished
Extracted ==
    {j \in Jobs : jobs[j].op = "audio" /\ jobs[j].st = "finished" /\ jobs[j].resp.kind = "info"}

\* the highest-ranked candidates of a listing: those no candidate is above
TopRanked(fs) ==
    {i \in Candidates(fs) : \A k \in Candidates(fs) : NotBelow(fs[i], fs[k])}

\* the candidates ranked below the top
LowerRanked(fs) == Candidates(fs) \ TopRanked(fs)

\* C18: no fallback past the top candidate. With no direct url, when the
\* highest-ranked candidate (the first in the listing among those no
\* candidate is above) has no url, the selector fails with "Failed to
\* resolve audio stream URL", whether or not another candidate has a url;
\* with a direct url, that url is returned whatever the listing holds.
C18_NoFallback ==
    \A j \in Extracted :
        LET fs == jobs[j].resp.formats
        IN  /\ jobs[j].resp.direct # "" => jobs[j].ret = Returned(jobs[j].resp.direct)
            /\ ( /\ jobs[j].resp.direct = ""
                 /\ TopRanked(fs) # {}
                 /\ fs[Min(TopRanked(fs))].url = "" )
               => jobs[j].ret = Raised("ValueError: Failed to resolve audio stream URL")

\* the selector has failed on a listing whose top candidate has no url
\* while a lower-ranked candidate of it has one, and the caller has failed
C18_Witness ==
    \E c \in AudioCalls :
        /\ Returned1(c)
        /\ calls[c].res.st = "fail"
        /\ calls[c].res.err = "ValueError: Failed to resolve audio stream URL"
        /\ calls[c].job \in Extracted
        /\ LET fs == jobs[calls[c].job].resp.formats
           IN  /\ jobs[calls[c].job].resp.direct = ""
               /\ \E i \in LowerRanked(fs) : fs[i].url # ""


\* the rules in the order in which the documentation lists them
RuleOrder == <<WatchPrefix, ShortPrefix, EmbedPrefix, ShortsPrefix>>

Rank(p) == CHOOSE i \in 1..Len(RuleOrder) : RuleOrder[i] = p

\* C19: rule priority in identifier extraction. For a url in which two
\* rules match at different positions, the identifier returned is the one
\* that follows the prefix of the rule listed first (watch, short link,
\* embed, shorts), wherever in the url that prefix stands.
C19_RulePriority ==
    \A c \in Started :
        \A k \in TwoRuleCases :
            k.url = calls[c].url =>
                calls[c].vid = IF Rank(k.first) < Rank(k.second) THEN <<"a">> ELSE <<"b">>


\* C20: lock discipline. Every step that changes the metadata cache, the
\* audio-url cache or the in-flight registry is taken while the
\* coordination lock is held.
C20_LockDiscipline ==
    [][ (cache' # cache \/ audio_cache' # audio_cache \/ inflight' # inflight)
            => lock # 0 ]_vars


\* the get_video_metadata calls for an identifier whose body has begun and
\* has not yet returned or raised
MetaInProgress(video_id) ==
    {c \in MetaCalls : calls[c].vid = video_id /\ calls[c].pc \notin {"init", "done"}}

\* C21: no leaked handles. Whenever no get_video_metadata call for an
\* identifier is in progress, the in-flight registry holds no entry for
\* it, whether the calls for it ended by success, failure or cancellation;
\* and a registered handle is always awaited by a call in progress that
\* has yet to run the removal.
C21_NoLeakedHandle ==
    \A id \in VideoIds :
        /\ MetaInProgress(id) = {} => inflight[id] = 0
        /\ inflight[id] # 0 =>
               \E c \in MetaInProgress(id) :
                   /\ calls[c].task = inflight[id]
                   /\ calls[c].pc \in {"await", "waiting", "lock2", "crit2"}

\* a call that registered a handle has ended by cancellation and another
\* by failure or success, no call for the identifier is in progress, and
\* the registry holds no entry for it
C21_Witness ==
    \E c1 \in MetaCalls, c2 \in MetaCalls :
        /\ Returned1(c1) /\ calls[c1].res.st = "cancelled" /\ calls[c1].task # 0
        /\ Returned1(c2) /\ calls[c2].res.st \in {"ok", "fail"} /\ calls[c2].task # 0
        /\ calls[c2].vid = calls[c1].vid
        /\ MetaInProgress(calls[c1].vid) = {}
        /\ inflight[calls[c1].vid] = 0


\* C22: no stale overwrite. A call that inserts a computation's result
\* into the metadata cache never replaces an entry that comes from a newer
\* computation, and never inserts again, with a new expiry, a result whose
\* entry has expired.
C22_NoStaleOverwrite ==
    [][ \A c \in MetaCalls :
            StoreStep(c) =>
                LET entry == cache[calls[c].vid]
                IN  /\ ~(entry.present /\ entry.src > Awaited(c).src)
                    /\ ~(entry.present /\ entry.src = Awaited(c).src
                             /\ entry.expires_at <= now)
      ]_vars

====
